---- MODULE Spec2Model ----
(***************************************************************************)
(* The two command-line scripts of system-inventory-windows:               *)
(*   check_file.py        the Syntax Checker   (process C, pcC/outC/exitC) *)
(*   verify_json_file.py  the Schema Validator (process V, pcV/outV/exitV) *)
(* Both are invoked with the same argument vector on the same file system. *)
(* One behaviour is one invocation of each script; their steps interleave. *)
(*                                                                         *)
(* Environment: the input path does not name the log file, no other        *)
(* process changes the file system during the run, and printing a message  *)
(* of the script or a slice of the decoded text succeeds.  Library calls   *)
(* raise the exceptions Python documents for them; rendering the validated *)
(* model instance, print(response), is library code and may raise.  An     *)
(* exception is a record [cls, code].                                      *)
(***************************************************************************)
EXTENDS Integers, Sequences, FiniteSets, TLC

VARIABLES
    argc,       \* len(sys.argv) of both invocations
    input,      \* the file system's entry at sys.argv[1]
    logfile,    \* the file system's entry at 'data_restore.log'
    log0,       \* logfile as it was before the invocations (history)
    pcC,        \* Syntax Checker: position in check_file.py
    outC,       \* Syntax Checker: lines written to the console
    exitC,      \* Syntax Checker: process exit status (-1: still running)
    pcV,        \* Schema Validator: position in verify_json_file.py
    outV,       \* Schema Validator: lines written to the console
    exitV,      \* Schema Validator: process exit status (-1: still running)
    trail,      \* Schema Validator: the stages entered, in order
    content     \* Schema Validator: the local 'content' (line 29)

vars == <<argc, input, logfile, log0, pcC, outC, exitC, pcV, outV, exitV, trail, content>>

(*************************** bounds of the model ***************************)
MaxLen == 42        \* longest decoded text, in characters
MaxArgc == 3        \* longest argument vector
MaxOldLog == 1      \* records already in the log before the run

(**************************** program constants ****************************)
ArgcWanted == 2     \* len(sys.argv) != 2
PreviewLen == 10    \* file.read(10)
HeadLen == 50       \* content[:50]
CtxRadius == 20     \* e.pos-20, e.pos+20

Max(a, b) == IF a >= b THEN a ELSE b
Min(a, b) == IF a <= b THEN a ELSE b

(************************** Python's exceptions ****************************)
\* The direct base class of each built-in or library exception class used.
Parent(c) ==
    CASE c = "JSONDecodeError"    -> "ValueError"
      [] c = "UnicodeDecodeError" -> "UnicodeError"
      [] c = "UnicodeEncodeError" -> "UnicodeError"
      [] c = "UnicodeError"       -> "ValueError"
      [] c = "ValidationError"    -> "ValueError"
      [] c = "ValueError"         -> "Exception"
      [] c = "FileNotFoundError"  -> "OSError"
      [] c = "IsADirectoryError"  -> "OSError"
      [] c = "PermissionError"    -> "OSError"
      [] c = "OSError"            -> "Exception"
      [] c = "RecursionError"     -> "RuntimeError"
      [] c = "RuntimeError"       -> "Exception"
      [] c = "Exception"          -> "BaseException"
      [] c = "SystemExit"         -> "BaseException"
      [] OTHER                    -> "object"

\* isinstance(e, base): what an 'except base' clause matches.
RECURSIVE IsA(_, _)
IsA(c, base) ==
    IF c = base THEN TRUE
    ELSE IF c \in {"object", "none"} THEN FALSE
    ELSE IsA(Parent(c), base)

NoExc == [cls |-> "none", code |-> 0]
Raise(c) == [cls |-> c, code |-> 1]

SysExitForgotten(code) == NoExc

\* sys.exit(code) raises SystemExit(code).
SysExit(code) == [cls |-> "SystemExit", code |-> code]

\* The status of a process ended by exception e reaching the top level:
\* SystemExit carries its code, any other exception prints a traceback and
\* the interpreter exits with status 1.
ExitStatus(e) == IF e.cls = "SystemExit" THEN e.code ELSE 1

Line(m, a) == [msg |-> m, arg |-> a]
\* What the interpreter prints for the exception that ends the process.
Traceback(e) ==
    IF e.cls \in {"none", "SystemExit"} THEN <<>> ELSE <<Line("Traceback", <<>>)>>

(***************************** Python slicing ******************************)
\* A slice bound i normalised against a sequence of length n.
PyIndex(i, n) == IF i < 0 THEN Max(i + n, 0) ELSE Min(i, n)

\* s[lo:hi], indices counted from 0.
PySlice(s, lo, hi) ==
    LET a == PyIndex(lo, Len(s))
        b == PyIndex(hi, Len(s))
    IN  IF a >= b THEN <<>> ELSE [k \in 1..(b - a) |-> s[a + k]]

CtxLowUnclamped(pos) == pos - CtxRadius

\* max(0, e.pos-20)
CtxLow(pos) == Max(0, pos - CtxRadius)

\* e.pos+20
CtxHigh(pos) == pos + CtxRadius

(****************************** file system ********************************)
\* A text of length n; its characters are told apart by their index.
TextOf(n) == [i \in 1..n |-> i]

Missing ==
    [kind |-> "missing", readable |-> FALSE, size |-> 0, decodes |-> FALSE,
     text |-> <<>>, parse |-> "bad", pos |-> 0, conforms |-> FALSE, reprOK |-> FALSE]

NewFile == [Missing EXCEPT !.kind = "file", !.readable = TRUE, !.decodes = TRUE]

\* Directories: os.path.getsize gives 0 or a block size, by platform.
Directories == {[Missing EXCEPT !.kind = "dir", !.size = s] : s \in {0, 4096}}

\* Regular files the user may not read.
Unreadable == {[NewFile EXCEPT !.readable = FALSE, !.size = s] : s \in {0, 4}}

\* Readable files whose bytes are not UTF-16 text (no BOM, an odd tail, ...).
Undecodable == {[NewFile EXCEPT !.decodes = FALSE, !.size = s] : s \in {1, 8, 11}}

\* BOM + text that is not a JSON document: the parser reports offset pos.
Malformed ==
    UNION {{[NewFile EXCEPT !.size = 2 + 2 * n, !.text = TextOf(n), !.pos = p] :
                p \in 0..n} : n \in 0..MaxLen}

\* BOM + a JSON document nested deeper than the interpreter's recursion limit.
TooDeep == {[NewFile EXCEPT !.size = 2 + 2 * MaxLen, !.text = TextOf(MaxLen), !.parse = "deep"]}

\* BOM + a JSON document; it conforms to AddUpdateRequest or not, and a
\* conforming one's model instance can be rendered by print() or not.
WellFormed ==
    {[NewFile EXCEPT !.size = 2 + 2 * n, !.text = TextOf(n), !.parse = "ok",
                     !.conforms = c, !.reprOK = r] :
        n \in 1..MaxLen, c \in BOOLEAN, r \in BOOLEAN}

FileStates ==
    {Missing, NewFile} \cup Directories \cup Unreadable \cup Undecodable
        \cup Malformed \cup TooDeep \cup WellFormed

Bytes(f) == [i \in 1..f.size |-> i]

OpenFileTruncating(f, mode) == IF f.kind = "dir" THEN f ELSE NewFile

\* What open(path, mode) leaves at path.
OpenFile(f, mode) ==
    IF mode \in {"r", "rb"} THEN f
    ELSE IF f.kind = "missing" THEN NewFile
    ELSE IF mode = "a" \/ f.kind = "dir" THEN f
    ELSE NewFile

\* What open(path, mode) raises.
OpenRaises(f, mode) ==
    IF f.kind = "dir" THEN Raise("IsADirectoryError")
    ELSE IF f.kind = "missing" /\ mode \in {"r", "rb"} THEN Raise("FileNotFoundError")
    ELSE IF f.kind = "file" /\ ~f.readable THEN Raise("PermissionError")
    ELSE NoExc

ExistsAlways(f) == TRUE

\* os.path.exists(path)
Exists(f) == f.kind # "missing"

\* os.path.getsize(path)
GetSize(f) == f.size

\* What file.read() raises on a file opened with encoding='utf-16'.
ReadRaises(f) == IF f.decodes THEN NoExc ELSE Raise("UnicodeDecodeError")

LoadsAccepts(f) == NoExc

\* What json.loads(text) raises.
LoadsRaises(f) ==
    CASE f.parse = "bad"  -> Raise("JSONDecodeError")
      [] f.parse = "deep" -> Raise("RecursionError")
      [] OTHER            -> NoExc

\* What json.load(f) raises: f.read(), then json.loads.
LoadRaises(f) == IF ReadRaises(f) # NoExc THEN ReadRaises(f) ELSE LoadsRaises(f)

\* What AddUpdateRequest.model_validate(data) raises.
ValidateRaises(f) == IF f.conforms THEN NoExc ELSE Raise("ValidationError")

\* What print(response) raises: rendering the model instance may fail.
PrintResponseRaises(f) == IF f.reprOK THEN NoExc ELSE Raise("UnicodeEncodeError")

(******************************** logging **********************************)
InfoRecord == [level |-> "INFO", msg |-> "Data loaded successfully"]
ErrorRecord ==
    [level |-> "ERROR", msg |-> "Error validating data against AddUpdateRequest model: "]

\* logging.info / logging.error through the FileHandler of basicConfig.
LogAppend(lf, rec) == [exists |-> TRUE, recs |-> Append(lf.recs, rec)]

\* logging.basicConfig(filename=...): the handler opens the file with mode 'a'.
LogOpen(lf) == [exists |-> TRUE, recs |-> lf.recs]

RECURSIVE SeqsUpTo(_, _)
SeqsUpTo(S, n) ==
    IF n = 0 THEN {<<>>}
    ELSE LET shorter == SeqsUpTo(S, n - 1)
         IN  shorter \cup {Append(s, x) : s \in shorter, x \in S}

LogStates ==
    {[exists |-> FALSE, recs |-> <<>>]} \cup
    {[exists |-> TRUE, recs |-> r] : r \in SeqsUpTo({InfoRecord}, MaxOldLog)}

(******************************** Init *************************************)
Init ==
    /\ argc \in 1..MaxArgc
    /\ input \in FileStates
    /\ logfile \in LogStates
    /\ log0 = logfile
    /\ pcC = "main"
    /\ outC = <<>>
    /\ exitC = -1
    /\ pcV = "import"
    /\ outV = <<>>
    /\ exitV = -1
    /\ trail = <<>>
    /\ content = <<>>

(*************************** check_file.py *********************************)
CheckExceptCatchAllFirst(e) ==
    IF IsA(e.cls, "Exception")
        THEN [out |-> <<Line("Error: ", <<>>)>>, exc |-> SysExit(1)]
        ELSE [out |-> <<>>, exc |-> e]

\* The except clauses of check_json_file, tried in order, on exception e:
\* the lines printed and the exception that leaves the try statement.
CheckExcept(e) ==
    IF IsA(e.cls, "ValueError")
        THEN [out |-> <<Line("Invalid JSON file: ", <<>>)>>, exc |-> SysExit(1)]
    ELSE IF IsA(e.cls, "FileNotFoundError")
        THEN [out |-> <<Line("File not found: ", <<>>)>>, exc |-> SysExit(1)]
    ELSE IF IsA(e.cls, "Exception")
        THEN [out |-> <<Line("Error: ", <<>>)>>, exc |-> SysExit(1)]
    ELSE [out |-> <<>>, exc |-> e]

\* Where a step leaves a process: exception e ends it, otherwise it goes on
\* at next, and reaching the end of the script is exit status 0.
End(e, next) ==
    [pc |-> IF e = NoExc THEN next ELSE "done",
     status |-> IF e # NoExc THEN ExitStatus(e) ELSE IF next = "done" THEN 0 ELSE -1]

CStep(out, e, next) ==
    /\ outC' = outC \o out \o Traceback(e)
    /\ pcC' = End(e, next).pc
    /\ exitC' = End(e, next).status

\* if len(sys.argv) != 2: usage, exit 1; else check_json_file(sys.argv[1])
CMain ==
    /\ pcC = "main"
    /\ IF argc # ArgcWanted
         THEN CStep(<<Line("Usage: ", <<>>)>>, SysExit(1), "open")
         ELSE CStep(<<>>, NoExc, "open")
    /\ UNCHANGED <<argc, input, logfile, log0, pcV, outV, exitV, trail, content>>

\* with open(file_path, 'r', encoding='utf-16') as f:
COpen ==
    /\ pcC = "open"
    /\ input' = OpenFile(input, "r")
    /\ LET e == OpenRaises(input, "r")
           h == CheckExcept(e)
       IN  CStep(h.out, h.exc, IF e = NoExc THEN "load" ELSE "valid")
    /\ UNCHANGED <<argc, logfile, log0, pcV, outV, exitV, trail, content>>

\* json.load(f)
CLoad ==
    /\ pcC = "load"
    /\ LET h == CheckExcept(LoadRaises(input))
       IN  CStep(h.out, h.exc, "valid")
    /\ UNCHANGED <<argc, input, logfile, log0, pcV, outV, exitV, trail, content>>

\* print("Valid JSON file"), and the script ends.
CValid ==
    /\ pcC = "valid"
    /\ CStep(<<Line("Valid JSON file", <<>>)>>, NoExc, "done")
    /\ UNCHANGED <<argc, input, logfile, log0, pcV, outV, exitV, trail, content>>

(************************ verify_json_file.py ******************************)
\* except Exception as e: of validate_and_load_json
VerifyOuterExcept(e) ==
    IF IsA(e.cls, "Exception")
        THEN [out |-> <<Line("File reading error: ", <<>>)>>, exc |-> SysExit(1)]
        ELSE [out |-> <<>>, exc |-> e]

\* except json.JSONDecodeError as e: of validate_and_load_json
VerifyInnerExcept(e, text, pos) ==
    IF IsA(e.cls, "JSONDecodeError")
        THEN [out |-> <<Line("JSON parsing error: ", <<>>),
                        Line("Error at position", PySlice(text, CtxLow(pos), CtxHigh(pos)))>>,
              exc |-> SysExit(1)]
        ELSE [out |-> <<>>, exc |-> e]

\* except Exception as e: of main
MainExcept(e) ==
    IF IsA(e.cls, "Exception")
        THEN [log |-> <<ErrorRecord>>,
              out |-> <<Line("Error validating data against AddUpdateRequest model: ", <<>>)>>,
              exc |-> SysExit(1)]
        ELSE [log |-> <<>>, out |-> <<>>, exc |-> e]

VStep(out, e, next) ==
    /\ outV' = outV \o out \o Traceback(e)
    /\ pcV' = End(e, next).pc
    /\ exitV' = End(e, next).status

\* logging.basicConfig(filename='data_restore.log', ...), run at import.
VImport ==
    /\ pcV = "import"
    /\ logfile' = LogOpen(logfile)
    /\ VStep(<<>>, NoExc, "main")
    /\ UNCHANGED <<argc, input, log0, pcC, outC, exitC, trail, content>>

\* if len(sys.argv) != 2: usage, exit 1; else main(sys.argv[1])
VMain ==
    /\ pcV = "main"
    /\ IF argc # ArgcWanted
         THEN VStep(<<Line("Usage: ", <<>>)>>, SysExit(1), "exists")
         ELSE VStep(<<>>, NoExc, "exists")
    /\ UNCHANGED <<argc, input, logfile, log0, pcC, outC, exitC, trail, content>>

\* Stage 1: if not os.path.exists(source_file): ... sys.exit(1)
VExists ==
    /\ pcV = "exists"
    /\ trail' = Append(trail, 1)
    /\ IF ~Exists(input)
         THEN VStep(<<Line("does not exist", <<>>)>>, SysExit(1), "size")
         ELSE VStep(<<>>, NoExc, "size")
    /\ UNCHANGED <<argc, input, logfile, log0, pcC, outC, exitC, content>>

\* Stage 2: if os.path.getsize(source_file) == 0: ... sys.exit(1)
VSize ==
    /\ pcV = "size"
    /\ trail' = Append(trail, 2)
    /\ IF GetSize(input) = 0
         THEN VStep(<<Line("is empty", <<>>)>>, SysExit(1), "preview")
         ELSE VStep(<<>>, NoExc, "preview")
    /\ UNCHANGED <<argc, input, logfile, log0, pcC, outC, exitC, content>>

\* Stage 3: with open(source_file, 'rb') as file: file.read(10); print hex.
\* No try statement encloses it.
VPreview ==
    /\ pcV = "preview"
    /\ trail' = Append(trail, 3)
    /\ input' = OpenFile(input, "rb")
    /\ LET e == OpenRaises(input, "rb")
       IN  IF e = NoExc
             THEN VStep(<<Line("First bytes (hex): ", PySlice(Bytes(input), 0, PreviewLen))>>,
                        NoExc, "open")
             ELSE VStep(<<>>, e, "open")
    /\ UNCHANGED <<argc, logfile, log0, pcC, outC, exitC, content>>

\* Stage 4: with open(source_file, 'r', encoding='utf-16') as file:
VOpen ==
    /\ pcV = "open"
    /\ trail' = Append(trail, 4)
    /\ input' = OpenFile(input, "r")
    /\ LET e == OpenRaises(input, "r")
           h == VerifyOuterExcept(e)
       IN  VStep(h.out, h.exc, IF e = NoExc THEN "read" ELSE "validate")
    /\ UNCHANGED <<argc, logfile, log0, pcC, outC, exitC, content>>

\* Stage 4: content = file.read(); print(content[:50])
VRead ==
    /\ pcV = "read"
    /\ LET e == ReadRaises(input)
           h == VerifyOuterExcept(e)
       IN  IF e = NoExc
             THEN /\ content' = input.text
                  /\ VStep(<<Line("File content starts with: ", PySlice(input.text, 0, HeadLen))>>,
                           NoExc, "parse")
             ELSE /\ content' = content
                  /\ VStep(h.out, h.exc, "validate")
    /\ UNCHANGED <<argc, input, logfile, log0, pcC, outC, exitC, trail>>

\* Stage 5: data = json.loads(content), inside both try statements.
VParse ==
    /\ pcV = "parse"
    /\ trail' = Append(trail, 5)
    /\ LET e == LoadsRaises(input)
           inner == VerifyInnerExcept(e, content, input.pos)
           outer == VerifyOuterExcept(inner.exc)
       IN  IF e = NoExc
             THEN VStep(<<Line("JSON parsed successfully!", <<>>)>>, NoExc, "validate")
             ELSE VStep(inner.out \o outer.out, outer.exc, "validate")
    /\ UNCHANGED <<argc, input, logfile, log0, pcC, outC, exitC, content>>

\* Stage 6: response = AddUpdateRequest.model_validate(data); logging.info(...)
VValidate ==
    /\ pcV = "validate"
    /\ trail' = Append(trail, 6)
    /\ LET e == ValidateRaises(input)
           h == MainExcept(e)
       IN  IF e = NoExc
             THEN /\ logfile' = LogAppend(logfile, InfoRecord)
                  /\ VStep(<<>>, NoExc, "print")
             ELSE /\ logfile' = IF h.log = <<>> THEN logfile ELSE LogAppend(logfile, h.log[1])
                  /\ VStep(h.out, h.exc, "done")
    /\ UNCHANGED <<argc, input, log0, pcC, outC, exitC, content>>

\* Stage 6, still inside the try statement: the two prints after logging.info.
VPrint ==
    /\ pcV = "print"
    /\ LET e == PrintResponseRaises(input)
           h == MainExcept(e)
           said == <<Line("Data loaded into AddUpdateRequest model successfully!", <<>>)>>
       IN  IF e = NoExc
             THEN /\ logfile' = logfile
                  /\ VStep(said \o <<Line("response", <<>>)>>, NoExc, "done")
             ELSE /\ logfile' = IF h.log = <<>> THEN logfile ELSE LogAppend(logfile, h.log[1])
                  /\ VStep(said \o h.out, h.exc, "done")
    /\ UNCHANGED <<argc, input, log0, pcC, outC, exitC, trail, content>>

Next ==
    \/ CMain \/ COpen \/ CLoad \/ CValid
    \/ VImport \/ VMain \/ VExists \/ VSize \/ VPreview \/ VOpen \/ VRead
    \/ VParse \/ VValidate \/ VPrint

Spec == Init /\ [][Next]_vars

(***************************************************************************)
(* The properties.  What follows reads the state only; a file's outcome is *)
(* stated from the file's attributes, independently of the actions.        *)
(***************************************************************************)
Msgs(out) == {out[i].msg : i \in 1..Len(out)}
Stages == {trail[i] : i \in 1..Len(trail)}
Appended == SubSeq(logfile.recs, Len(log0.recs) + 1, Len(logfile.recs))
ArgsOK == argc = ArgcWanted
IsPrefix(s, t) == Len(s) <= Len(t) /\ \A i \in 1..Len(s) : s[i] = t[i]

Openable(f) == f.kind = "file" /\ f.readable
\* The file's UTF-16 decoded contents parse as JSON.
Parses(f) == Openable(f) /\ f.decodes /\ f.parse = "ok"
ErrorValidating == "Error validating data against AddUpdateRequest model: "

\* C1: a finished Syntax Checker run on a path argument has printed "Valid
\* JSON file" and exited 0 exactly when the file's UTF-16 decoded contents
\* parse as JSON; otherwise it has printed a diagnostic, exited 1 and not
\* printed "Valid JSON file" (and no running checker has printed it early).
C1_SyntaxCheckerVerdict ==
    /\ "Valid JSON file" \in Msgs(outC) => Parses(input) /\ pcC = "done"
    /\ (pcC = "done" /\ ArgsOK) =>
          /\ "Valid JSON file" \in Msgs(outC) <=> Parses(input)
          /\ exitC = 0 <=> Parses(input)
          /\ ~Parses(input) => exitC = 1 /\ Len(outC) >= 1

C1_Witness ==
    /\ pcC = "done" /\ ArgsOK /\ Parses(input)
    /\ exitC = 0 /\ outC = <<Line("Valid JSON file", <<>>)>>

\* C2 (as claimed): once stage 6 has run, a conforming value gave an info
\* record "Data loaded successfully", the printed structure and exit 0; a
\* non-conforming one an error record, the error message and exit 1.
C2_Claimed ==
    (pcV = "done" /\ 6 \in Stages) =>
        IF input.conforms
          THEN /\ Appended = <<InfoRecord>>
               /\ "response" \in Msgs(outV)
               /\ exitV = 0
          ELSE /\ Appended = <<ErrorRecord>>
               /\ ErrorValidating \in Msgs(outV)
               /\ exitV = 1

\* The outcome that fails stage k of the Schema Validator, from the file.
StageFails(k, f) ==
    CASE k = 1 -> f.kind = "missing"
      [] k = 2 -> f.size = 0
      [] k = 3 -> ~Openable(f)
      [] k = 4 -> ~Openable(f) \/ ~f.decodes
      [] k = 5 -> f.parse # "ok"
      [] k = 6 -> ~f.conforms \/ ~f.reprOK
      [] OTHER -> FALSE

\* C3: the stages entered are 1, 2, 3, ... in that order, each once; a stage
\* is entered only when no earlier stage failed; a run that ended ended with
\* status 1 exactly when its last stage failed (or the usage check did), and
\* with status 0 only after stage 6.
C3_StageOrder ==
    /\ \A i \in 1..Len(trail) : trail[i] = i
    /\ Len(trail) <= 6
    /\ \A k \in 1..(Len(trail) - 1) : ~StageFails(k, input)
    /\ pcV = "done" <=> exitV \in {0, 1}
    /\ (pcV = "done" /\ trail = <<>>) => exitV = 1 /\ ~ArgsOK
    /\ (pcV = "done" /\ trail # <<>>) =>
          /\ exitV = 1 <=> StageFails(Len(trail), input)
          /\ exitV = 0 => Len(trail) = 6

C3_Witness ==
    /\ pcV = "done" /\ exitV = 1 /\ trail = <<1, 2, 3, 4, 5>>
    /\ input.parse = "bad"

\* C4 (as claimed): no exception leaves the Schema Validator unhandled (no
\* traceback is ever printed), every failing run ends with a message of the
\* script, and no run fails in stage 3, the raw byte preview.
C4_Claimed ==
    /\ "Traceback" \notin Msgs(outV)
    /\ (pcV = "done" /\ exitV = 1) => outV # <<>> /\ trail # <<1, 2, 3>>

\* The diagnostic class the Syntax Checker owes a file it cannot validate.
CheckerOwes(f) ==
    IF f.kind = "missing" THEN "File not found: "
    ELSE IF ~Openable(f) THEN "Error: "
    ELSE IF ~f.decodes \/ f.parse = "bad" THEN "Invalid JSON file: "
    ELSE "Error: "

\* C5: a failing Syntax Checker run has printed exactly one line and exited
\* 1; on a path argument that line is "File not found: " for a missing path,
\* "Invalid JSON file: " for an encoding or JSON parse error, and "Error: "
\* for any other failure.
C5_FailureTaxonomy ==
    (pcC = "done" /\ exitC # 0) =>
        /\ exitC = 1
        /\ Len(outC) = 1
        /\ outC[1].msg = IF ArgsOK THEN CheckerOwes(input) ELSE "Usage: "

C5_Witness ==
    /\ pcC = "done" /\ exitC = 1 /\ ArgsOK
    /\ Openable(input) /\ ~input.decodes
    /\ outC = <<Line("Invalid JSON file: ", <<>>)>>

\* The message the Schema Validator's stage k reports its failure with.
StageMsg(k) ==
    CASE k = 1 -> "does not exist"
      [] k = 2 -> "is empty"
      [] k = 4 -> "File reading error: "
      [] k = 5 -> "JSON parsing error: "
      [] k = 6 -> ErrorValidating
      [] OTHER -> "(none)"

Diagnostics ==
    {"does not exist", "is empty", "File reading error: ", "JSON parsing error: ",
     ErrorValidating, "Traceback"}

\* The last diagnostic a run printed ("(none)" if it printed none).
LastDiagnostic(out) ==
    LET at == {i \in 1..Len(out) : out[i].msg \in Diagnostics}
    IN  IF at = {} THEN "(none)"
        ELSE out[CHOOSE i \in at : \A j \in at : j <= i].msg

\* C6 (as claimed): a Schema Validator run that failed in one of the five
\* stages that have a message (1, 2, 4, 5, 6) printed, as its final
\* diagnostic, the message of the stage that failed.
C6_Claimed ==
    (pcV = "done" /\ exitV = 1 /\ Len(trail) \in {1, 2, 4, 5, 6}) =>
        LastDiagnostic(outV) = StageMsg(Len(trail))

C8_ContextWindow ==
    \A i \in 1..Len(outV) :
        outV[i].msg = "Error at position" =>
            LET p == input.pos
                L == Len(input.text)
                lo == Max(0, p - CtxRadius)
                hi == Min(L, p + CtxRadius)
                ctx == outV[i].arg
            IN  /\ Len(ctx) = hi - lo
                /\ Len(ctx) <= 2 * CtxRadius
                /\ \A k \in 1..Len(ctx) : ctx[k] = input.text[lo + k]
                /\ pcV = "done" /\ exitV = 1
                /\ "Traceback" \notin Msgs(outV)

C8_Witness ==
    /\ pcV = "done"
    /\ "Error at position" \in Msgs(outV)
    /\ input.pos > CtxRadius
    /\ input.pos + CtxRadius > Len(input.text)
    /\ input.pos < Len(input.text)

\* C9 (as claimed): a finished Schema Validator run has appended one log
\* record if it reached stage 6 and none otherwise, and never both the info
\* record and an error record.
C9_Claimed ==
    pcV = "done" =>
        /\ Len(Appended) = IF 6 \in Stages THEN 1 ELSE 0
        /\ ~(\E i, j \in 1..Len(Appended) :
                Appended[i] = InfoRecord /\ Appended[j] = ErrorRecord)

====
